---------------------------- MODULE Spec2Model ----------------------------
(***************************************************************************)
(* Model of the video enrichment / ranking pipeline of youtube-ai:         *)
(*   app.py            iso8601_to_seconds, summarize_video, run_query_flow *)
(*   trend_detector.py fetch_video_stats, calculate_trend_score,           *)
(*                     detect_trends                                       *)
(*                                                                         *)
(* Python strings are sequences of one-character strings.  A Python value  *)
(* stored in a dict is a record [t, s, n]: t is its type, s its text (for  *)
(* a str), n its number (for an int, or a float kept in hundredths).  A    *)
(* dict is a function from key names to such values.                       *)
(***************************************************************************)
EXTENDS Integers, Sequences, FiniteSets, TLC

VARIABLES
    pc,         \* where the invoked entry point stands
    videos,     \* the fetched batch (run_query_flow: videos; detect_trends: videos)
    task,       \* per item: "pending", "inflight" (request sent, awaiting the answer) or "done"
    resp,       \* per item: the answer its external call received
    summaries,  \* the list asyncio.gather builds (summaries / stats_list), one slot per item
    enriched,   \* the merged and sorted list (enriched / the value detect_trends returns)
    best,       \* run_query_flow's best pick
    clock,      \* detect_trends: the value of now() read when each item is scored
    durIn,      \* iso8601_to_seconds: its argument
    durOut      \* iso8601_to_seconds: its outcome

vars == <<pc, videos, task, resp, summaries, enriched, best, clock, durIn, durOut>>

---------------------------------------------------------------------------
(* Bounds of the model *)

MaxVideos == 3

MaxDurLen == 4

---------------------------------------------------------------------------
(* Program constants *)

SummaryMax == 220

WhyMax == 120

RelevanceMax == 100

SecondsPerHour == 3600

SecondsPerMinute == 60

---------------------------------------------------------------------------
(* Python values, strings and dicts *)

JStr(s) == [t |-> "str", s |-> s, n |-> 0]

JInt(n) == [t |-> "int", s |-> <<>>, n |-> n]

JFloat2(h) == [t |-> "float", s |-> <<>>, n |-> h]

JNull == [t |-> "null", s |-> <<>>, n |-> 0]

EmptyDict == [k \in {} |-> JNull]

\* d.get(k, default)
Get(d, k, default) == IF k \in DOMAIN d THEN d[k] ELSE default

\* {**a, **b}, a.update(b): the keys of b win
DictMerge(a, b) == [k \in DOMAIN a \cup DOMAIN b |-> IF k \in DOMAIN b THEN b[k] ELSE a[k]]

\* d[k] = v
DictSet(d, k, v) == [x \in DOMAIN d \cup {k} |-> IF x = k THEN v ELSE d[x]]

Min(a, b) == IF a < b THEN a ELSE b

Max(a, b) == IF a > b THEN a ELSE b

\* s[:n]
Take(s, n) == SubSeq(s, 1, Min(n, Len(s)))

Rep(c, n) == [i \in 1..n |-> c]

DigitChars == <<"0", "1", "2", "3", "4", "5", "6", "7", "8", "9">>

IsDigit(ch) == \E i \in 1..Len(DigitChars) : DigitChars[i] = ch

DigitValue(ch) == (CHOOSE i \in 1..Len(DigitChars) : DigitChars[i] = ch) - 1

RECURSIVE DecimalValue(_)
DecimalValue(s) ==
    IF s = <<>> THEN 0
    ELSE 10 * DecimalValue(SubSeq(s, 1, Len(s) - 1)) + DigitValue(s[Len(s)])

\* int(s) for a str: a run of decimal digits converts, the empty string and any
\* other text raise ValueError
IntOfStr(s) ==
    IF s # <<>> /\ \A i \in 1..Len(s) : IsDigit(s[i])
    THEN [ok |-> TRUE, n |-> DecimalValue(s)]
    ELSE [ok |-> FALSE, n |-> 0]

\* int(x): an int is itself, a str is parsed, None raises TypeError
IntOf(x) ==
    CASE x.t = "int" -> [ok |-> TRUE, n |-> x.n]
      [] x.t = "str" -> IntOfStr(x.s)
      [] OTHER -> [ok |-> FALSE, n |-> 0]

IsSpace(ch) == ch = " "

RECURSIVE Strip(_)
Strip(s) ==
    IF s = <<>> THEN s
    ELSE IF IsSpace(s[1]) THEN Strip(Tail(s))
    ELSE IF IsSpace(s[Len(s)]) THEN Strip(SubSeq(s, 1, Len(s) - 1))
    ELSE s

---------------------------------------------------------------------------
(* app.py: iso8601_to_seconds *)

\* the contribution of unit letter ch with the digits num before it; int("")
\* raises ValueError
UnitSeconds(ch, num) ==
    LET v == IntOfStr(num) IN
    CASE ch = "H" -> [ok |-> v.ok, n |-> v.n * SecondsPerHour]
      [] ch = "M" -> [ok |-> v.ok, n |-> v.n * SecondsPerMinute]
      [] ch = "S" -> [ok |-> v.ok, n |-> v.n]
      [] OTHER -> [ok |-> TRUE, n |-> 0]

\* the loop over duration[2:], with the running total and the digit buffer
RECURSIVE ScanDuration(_, _, _)
ScanDuration(rest, total, num) ==
    IF rest = <<>> THEN [raised |-> FALSE, value |-> total]
    ELSE IF IsDigit(rest[1]) THEN ScanDuration(Tail(rest), total, Append(num, rest[1]))
    ELSE LET u == UnitSeconds(rest[1], num) IN
         IF u.ok THEN ScanDuration(Tail(rest), total + u.n, <<>>)
         ELSE [raised |-> TRUE, value |-> 0]

StartsWithPT(duration) == Len(duration) >= 2 /\ duration[1] = "P" /\ duration[2] = "T"

iso8601_to_seconds(duration) ==
    IF duration = <<>> \/ ~StartsWithPT(duration)
    THEN [raised |-> FALSE, value |-> 0]
    ELSE ScanDuration(SubSeq(duration, 3, Len(duration)), 0, <<>>)

DurationChars == {"P", "T", "H", "M", "S", "X", "2"}

RECURSIVE StringsOfLength(_)
StringsOfLength(n) ==
    IF n = 0 THEN {<<>>}
    ELSE {Append(s, c) : s \in StringsOfLength(n - 1), c \in DurationChars}

DurationInputs == UNION {StringsOfLength(n) : n \in 0..MaxDurLen}

NoOutcome == [raised |-> FALSE, value |-> -1]

CallIso8601(d) ==
    /\ pc = "idle"
    /\ pc' = "parsed"
    /\ durIn' = d
    /\ durOut' = iso8601_to_seconds(d)
    /\ UNCHANGED <<videos, task, resp, summaries, enriched, best, clock>>

---------------------------------------------------------------------------
(* The answers of the annotation service (client.chat.completions.create) *)

\* kind "error": the call raises; kind "text": content is this text; kind
\* "object": content is the JSON text of the dict `fields`
ErrorAnswer == [kind |-> "error", text |-> <<>>, fields |-> EmptyDict]

TextAnswer(s) == [kind |-> "text", text |-> s, fields |-> EmptyDict]

ObjectAnswer(d) == [kind |-> "object", text |-> <<>>, fields |-> d]

NoAnswer == [kind |-> "none", text |-> <<>>, fields |-> EmptyDict]

ShortSummary == <<"a", " ", "c", "l", "i", "p">>

ShortWhy == <<"f", "i", "t", "s">>

ProseText == <<" ", "n", "o", " ", "j", "s", "o", "n", " ">>

NumberText == <<"4", "2">>

Annotation(rel) ==
    [summary |-> JStr(ShortSummary), relevance |-> rel, why |-> JStr(ShortWhy)]

AnnotationAnswers ==
    { ErrorAnswer,
      TextAnswer(ProseText),
      TextAnswer(Rep("x", SummaryMax + 80)),
      TextAnswer(NumberText),
      ObjectAnswer(Annotation(JInt(50))),
      ObjectAnswer(Annotation(JInt(90))),
      ObjectAnswer(Annotation(JInt(-5))),
      ObjectAnswer(Annotation(JInt(150))),
      ObjectAnswer(Annotation(JStr(<<"h", "i", "g", "h">>))),
      ObjectAnswer([summary |-> JStr(ShortSummary)]),
      ObjectAnswer([summary |-> JStr(Rep("s", SummaryMax + 80)), relevance |-> JInt(70),
                    why |-> JStr(Rep("w", WhyMax + 80))]),
      ObjectAnswer([summary |-> JNull, relevance |-> JInt(60), why |-> JStr(ShortWhy)]),
      ObjectAnswer(DictSet(Annotation(JInt(40)), "title", JStr(<<"s", "p", "a", "m">>))) }

---------------------------------------------------------------------------
(* app.py: summarize_video *)

\* json.loads(content.strip()): ok is FALSE when it raises; isdict tells a JSON
\* object from any other JSON value (here a number)
JsonLoads(answer) ==
    IF answer.kind = "object"
    THEN [ok |-> TRUE, isdict |-> TRUE, fields |-> answer.fields]
    ELSE [ok |-> IntOfStr(Strip(answer.text)).ok, isdict |-> FALSE, fields |-> EmptyDict]

DefaultParsed == [summary |-> JStr(<<>>), relevance |-> JInt(0), why |-> JStr(<<>>)]

\* a clamp that forgets the lower end
ClampUpperOnly(r) == Min(RelevanceMax, r)

\* max(0, min(100, r))
ClampRelevance(r) == Max(0, Min(RelevanceMax, r))

\* the first try/except: parsed after it
ParseContent(answer) ==
    LET j == JsonLoads(answer) IN
    IF j.ok THEN j
    ELSE [ok |-> TRUE, isdict |-> TRUE,
          fields |-> DictSet(DefaultParsed, "summary", JStr(Strip(answer.text)))]

\* the second try/except on a dict
RelevanceOf(parsed) ==
    LET r == IntOf(Get(parsed, "relevance", JInt(0))) IN
    IF r.ok THEN ClampRelevance(r.n) ELSE 0

Raised == [exc |-> TRUE, val |-> EmptyDict]

Returned(d) == [exc |-> FALSE, val |-> d]

NoResult == [exc |-> FALSE, val |-> EmptyDict]

\* the outcome of the coroutine: the dict it returns, or the exception it raises.
\* A parsed value that is no dict has no .get, and the handler's
\* parsed["relevance"] = 0 raises in turn; slicing a summary or why that is no
\* str raises TypeError.
summarize_video(answer) ==
    IF answer.kind = "error" THEN Raised
    ELSE LET p == ParseContent(answer) IN
         IF ~p.isdict THEN Raised
         ELSE LET d1 == DictSet(p.fields, "relevance", JInt(RelevanceOf(p.fields)))
                  s  == Get(d1, "summary", JStr(<<>>))
                  w  == Get(d1, "why", JStr(<<>>))
              IN IF s.t # "str" THEN Raised
                 ELSE IF w.t # "str" THEN Raised
                 ELSE Returned(DictSet(DictSet(d1, "summary", JStr(Take(s.s, SummaryMax))),
                                       "why", JStr(Take(w.s, WhyMax))))

---------------------------------------------------------------------------
(* asyncio.gather *)

\* a gather that collects results in the order of completion
StoreByCompletion(slots, i, r) ==
    LET free == {j \in 1..Len(slots) : slots[j] = [exc |-> FALSE, val |-> EmptyDict]}
        first == CHOOSE j \in free : \A k \in free : j <= k
    IN [slots EXCEPT ![first] = r]

\* the result of child i goes to position i of the gathered list
StoreResult(slots, i, r) == [slots EXCEPT ![i] = r]

AllDone == \A i \in 1..Len(task) : task[i] = "done"

---------------------------------------------------------------------------
(* app.py: run_query_flow *)

\* a video dict as yt_search / yt_trending build it
FetchedVideo(i) ==
    LET d == DigitChars[i + 1] IN
    [id |-> JStr(<<"v", d>>), title |-> JStr(<<"t", d>>), channel |-> JStr(<<"c", d>>),
     description |-> JStr(<<"d", d>>), thumb |-> IF i = 1 THEN JNull ELSE JStr(<<"u", d>>),
     views |-> JStr(<<d, "0">>), likes |-> JStr(<<d>>), duration |-> JInt(40 + i),
     link |-> JStr(<<"l", d>>)]

VideoKeys == {"id", "title", "channel", "description", "thumb", "views", "likes",
              "duration", "link"}

\* "Summary unavailable."
UnavailableText ==
    <<"S", "u", "m", "m", "a", "r", "y", " ", "u", "n", "a", "v", "a", "i", "l", "a", "b",
      "l", "e", ".">>

Placeholder == [summary |-> JStr(UnavailableText), relevance |-> JInt(0), why |-> JStr(<<>>)]

\* a merge that skips the videos whose call failed
EnrichDroppingFailed(vs, ss) ==
    LET kept == SelectSeq([i \in 1..Min(Len(vs), Len(ss)) |-> i], LAMBDA i : ~ss[i].exc)
    IN [p \in 1..Len(kept) |-> DictMerge(vs[kept[p]], ss[kept[p]].val)]

\* the loop over zip(videos, summaries)
Enrich(vs, ss) ==
    [i \in 1..Min(Len(vs), Len(ss)) |->
        DictMerge(vs[i], IF ss[i].exc THEN Placeholder ELSE ss[i].val)]

\* the order of the first n positions of keys under a stable descending sort
RECURSIVE StableDescOrder(_, _)
StableDescOrder(keys, n) ==
    IF n = 0 THEN <<>>
    ELSE LET prev == StableDescOrder(keys, n - 1)
             c == Cardinality({p \in 1..Len(prev) : keys[prev[p]] >= keys[n]})
         IN SubSeq(prev, 1, c) \o <<n>> \o SubSeq(prev, c + 1, Len(prev))

\* a ranking that sorts ascending and reverses the list: equal keys swap
RankAscendingReversed(items) ==
    LET keys == [i \in 1..Len(items) |-> 0 - Get(items[i], "relevance", JInt(0)).n]
        order == StableDescOrder(keys, Len(items))
    IN [p \in 1..Len(items) |-> items[order[Len(items) + 1 - p]]]

\* enriched.sort(key=lambda x: x.get("relevance", 0), reverse=True)
Rank(items) ==
    LET keys == [i \in 1..Len(items) |-> Get(items[i], "relevance", JInt(0)).n]
        order == StableDescOrder(keys, Len(items))
    IN [p \in 1..Len(items) |-> items[order[p]]]

\* the fetch returned n videos
RunQueryFlow(n) ==
    /\ pc = "idle"
    /\ videos' = [i \in 1..n |-> FetchedVideo(i)]
    /\ pc' = IF n = 0 THEN "empty" ELSE "gather"
    /\ task' = [i \in 1..n |-> "pending"]
    /\ resp' = [i \in 1..n |-> NoAnswer]
    /\ summaries' = [i \in 1..n |-> NoResult]
    /\ UNCHANGED <<enriched, best, clock, durIn, durOut>>

\* yt_search / yt_trending raised
QueryFetchFails ==
    /\ pc = "idle"
    /\ pc' = "raised"
    /\ UNCHANGED <<videos, task, resp, summaries, enriched, best, clock, durIn, durOut>>

\* summarize_video has no await: once the event loop starts task i it stays in
\* it until it returns, and the tasks start in the order gather created them
IssueRequest(i) ==
    /\ pc = "gather"
    /\ task[i] = "pending"
    /\ \A j \in 1..Len(task) : j # i => (task[j] # "inflight" /\ (j < i => task[j] = "done"))
    /\ task' = [task EXCEPT ![i] = "inflight"]
    /\ UNCHANGED <<pc, videos, resp, summaries, enriched, best, clock, durIn, durOut>>

RequestReturns(i, answer) ==
    /\ pc = "gather"
    /\ task[i] = "inflight"
    /\ resp' = [resp EXCEPT ![i] = answer]
    /\ summaries' = StoreResult(summaries, i, summarize_video(answer))
    /\ task' = [task EXCEPT ![i] = "done"]
    /\ UNCHANGED <<pc, videos, enriched, best, clock, durIn, durOut>>

\* gather(return_exceptions=True) resolves; merge, sort, pick the head
\* (enriched[0] of an empty list raises IndexError)
QueryGatherDone ==
    /\ pc = "gather"
    /\ AllDone
    /\ enriched' = Rank(Enrich(videos, summaries))
    /\ best' = IF enriched' = <<>> THEN best ELSE enriched'[1]
    /\ pc' = IF enriched' = <<>> THEN "raised" ELSE "done"
    /\ UNCHANGED <<videos, task, resp, summaries, clock, durIn, durOut>>

---------------------------------------------------------------------------
(* trend_detector.py: fetch_video_stats, calculate_trend_score, detect_trends *)

\* the answers of the statistics endpoint: kind "error" makes the call raise (no
\* connection, or a body without items[0].statistics); kind "object" carries
\* the statistics dict
StatsAnswers ==
    { ErrorAnswer,
      ObjectAnswer(EmptyDict),
      ObjectAnswer([viewCount |-> JStr(<<"7">>), likeCount |-> JStr(<<"3">>)]),
      ObjectAnswer([viewCount |-> JStr(<<"9", "0">>), commentCount |-> JStr(<<"1">>)]) }

\* int(stats.get(key, 0))
StatCount(stats, key) == IntOf(Get(stats, key, JInt(0)))

fetch_video_stats(answer) ==
    IF answer.kind # "object" THEN Raised
    ELSE LET v == StatCount(answer.fields, "viewCount")
             l == StatCount(answer.fields, "likeCount")
             c == StatCount(answer.fields, "commentCount")
         IN IF v.ok /\ l.ok /\ c.ok
            THEN Returned([views |-> JInt(v.n), likes |-> JInt(l.n), comments |-> JInt(c.n)])
            ELSE Raised

\* round(num / den, 2) in hundredths for den > 0: the nearest hundredth, a tie
\* going to the even one
RoundHundredths(num, den) ==
    LET q == (100 * num) \div den
        r == (100 * num) % den
    IN IF 2 * r > den \/ (2 * r = den /\ q % 2 = 1) THEN q + 1 ELSE q

\* a denominator without the floor of one hour
HoursSinceNoFloor(now, published_at) == now - published_at

\* the denominator of line 42 in seconds: max(elapsed / 3600, 1) hours
HoursSince(now, published_at) == Max(now - published_at, SecondsPerHour)

\* round(views / hours_since, 2), kept in hundredths; a zero denominator raises
\* ZeroDivisionError
calculate_trend_score(views, published_at, now) ==
    LET den == HoursSince(now, published_at)
        num == views * SecondsPerHour
    IN IF den = 0 THEN [raised |-> TRUE, score |-> 0]
       ELSE IF den > 0 THEN [raised |-> FALSE, score |-> RoundHundredths(num, den)]
       ELSE [raised |-> FALSE, score |-> 0 - RoundHundredths(num, 0 - den)]

\* the clock values at which an item may be scored, in seconds from its
\* publication: an hour before it (clock skew), at it, half an hour, one hour,
\* an hour and a half and three hours after it
NowValues == {0 - SecondsPerHour, 0, 1800, SecondsPerHour, 5400, 3 * SecondsPerHour}

\* a video dict as detect_trends builds it from a search item
RecentVideo(i) ==
    LET d == DigitChars[i + 1] IN
    [id |-> JStr(<<"v", d>>), title |-> JStr(<<"t", d>>), published_at |-> JInt(0),
     thumbnail |-> JStr(<<"u", d>>)]

\* the loop over enumerate(stats_list)
AttachStats(vs, ss, nows) ==
    [i \in 1..Len(ss) |->
        LET sc == calculate_trend_score(ss[i].val["views"].n, vs[i]["published_at"].n, nows[i])
        IN DictSet(DictMerge(vs[i], ss[i].val), "trend_score", JFloat2(sc.score))]

ScoreRaises(vs, ss, nows) ==
    \E i \in 1..Len(ss) :
        calculate_trend_score(ss[i].val["views"].n, vs[i]["published_at"].n, nows[i]).raised

\* sorted(videos, key=lambda x: x["trend_score"], reverse=True)
RankByTrend(items) ==
    LET keys == [i \in 1..Len(items) |-> items[i]["trend_score"].n]
        order == StableDescOrder(keys, Len(items))
    IN [p \in 1..Len(items) |-> items[order[p]]]

\* fetch_recent_videos returned n items; gather wraps one fetch_video_stats per item
DetectTrends(n) ==
    /\ pc = "idle"
    /\ videos' = [i \in 1..n |-> RecentVideo(i)]
    /\ pc' = "t_gather"
    /\ task' = [i \in 1..n |-> "pending"]
    /\ resp' = [i \in 1..n |-> NoAnswer]
    /\ summaries' = [i \in 1..n |-> NoResult]
    /\ UNCHANGED <<enriched, best, clock, durIn, durOut>>

\* fetch_recent_videos raised
TrendFetchFails ==
    /\ pc = "idle"
    /\ pc' = "t_raised"
    /\ UNCHANGED <<videos, task, resp, summaries, enriched, best, clock, durIn, durOut>>

\* task i runs to its first await (session.get): the tasks start in the order
\* gather created them, before the loop handles any answer
StatsIssue(i) ==
    /\ pc = "t_gather"
    /\ task[i] = "pending"
    /\ \A j \in 1..Len(task) : j < i => task[j] # "pending"
    /\ task' = [task EXCEPT ![i] = "inflight"]
    /\ UNCHANGED <<pc, videos, resp, summaries, enriched, best, clock, durIn, durOut>>

\* the answer of call i arrives, in any order.  gather() without
\* return_exceptions hands the first exception to detect_trends at once; the
\* other calls keep running
StatsReturn(i, answer) ==
    /\ pc \in {"t_gather", "t_raised"}
    /\ task[i] = "inflight"
    /\ \A j \in 1..Len(task) : task[j] # "pending"
    /\ resp' = [resp EXCEPT ![i] = answer]
    /\ summaries' = StoreResult(summaries, i, fetch_video_stats(answer))
    /\ task' = [task EXCEPT ![i] = "done"]
    /\ pc' = IF fetch_video_stats(answer).exc THEN "t_raised" ELSE pc
    /\ UNCHANGED <<videos, enriched, best, clock, durIn, durOut>>

\* gather resolves with every result; attach, score, sort
TrendsGatherDone(nows) ==
    /\ pc = "t_gather"
    /\ AllDone
    /\ clock' = nows
    /\ IF ScoreRaises(videos, summaries, nows)
       THEN pc' = "t_raised" /\ UNCHANGED enriched
       ELSE pc' = "t_done" /\ enriched' = RankByTrend(AttachStats(videos, summaries, nows))
    /\ UNCHANGED <<videos, task, resp, summaries, best, durIn, durOut>>

---------------------------------------------------------------------------

Init ==
    /\ pc = "idle"
    /\ videos = <<>>
    /\ task = <<>>
    /\ resp = <<>>
    /\ summaries = <<>>
    /\ enriched = <<>>
    /\ best = EmptyDict
    /\ clock = <<>>
    /\ durIn = <<>>
    /\ durOut = NoOutcome

Next ==
    \/ (pc = "idle" /\ \E d \in DurationInputs : CallIso8601(d))
    \/ \E n \in 0..MaxVideos : RunQueryFlow(n)
    \/ QueryFetchFails
    \/ \E i \in 1..Len(task) : IssueRequest(i)
    \/ (pc = "gather" /\ \E i \in 1..Len(task), a \in AnnotationAnswers : RequestReturns(i, a))
    \/ QueryGatherDone
    \/ \E n \in 0..MaxVideos : DetectTrends(n)
    \/ TrendFetchFails
    \/ \E i \in 1..Len(task) : StatsIssue(i)
    \/ \E i \in 1..Len(task), a \in StatsAnswers : StatsReturn(i, a)
    \/ (pc = "t_gather" /\ AllDone /\ \E nows \in [1..Len(task) -> NowValues] : TrendsGatherDone(nows))

Spec == Init /\ [][Next]_vars

---------------------------------------------------------------------------
(* Properties *)

N == Len(videos)

\* the positions of the final list that hold the item of input video i
PositionsOf(i) == {p \in 1..Len(enriched) : enriched[p]["id"] = videos[i]["id"]}

\* the input position of the item at position p of the final list
SourceOf(p) == CHOOSE i \in 1..N : enriched[p]["id"] = videos[i]["id"]

CallFailed(i) == summarize_video(resp[i]).exc

\* C1: when run_query_flow finishes a non-empty batch of N videos of which any k
\* calls failed, the enriched list has exactly N items, exactly one per input
\* video, and the item of every failed call carries relevance 0, the summary
\* "Summary unavailable." and an empty why.
C1_OneItemPerVideo ==
    pc = "done" =>
        /\ Len(enriched) = N
        /\ \A i \in 1..N : Cardinality(PositionsOf(i)) = 1
        /\ \A i \in 1..N : CallFailed(i) =>
              \A p \in PositionsOf(i) :
                  /\ enriched[p]["relevance"] = JInt(0)
                  /\ enriched[p]["summary"] = JStr(UnavailableText)
                  /\ enriched[p]["why"] = JStr(<<>>)

\* a finished batch of three where two calls failed for different causes
C1_Witness ==
    /\ pc = "done"
    /\ N = 3
    /\ resp[1].kind = "error"
    /\ resp[2] = TextAnswer(NumberText)
    /\ ~CallFailed(3)
    /\ Len(enriched) = 3

FinishedBatch == pc \in {"done", "t_done", "t_raised"}

\* C2: a batch operation (run_query_flow's summaries, detect_trends' stats) is
\* over only when every call of the batch has completed or failed, and every
\* call that did not fail has its result in the returned list.
C2_JoinBarrier ==
    FinishedBatch =>
        /\ \A i \in 1..N : task[i] = "done"
        /\ \A i \in 1..N : ~summaries[i].exc => PositionsOf(i) # {}

\* C3: a call whose predecessors have all been issued can be issued at once: it
\* does not have to wait for the answer to an earlier call.
C3_CallsNeedNotWait ==
    \A i \in 1..Len(task) :
        (pc = "gather" /\ task[i] = "pending" /\ \A j \in 1..(i - 1) : task[j] # "pending")
            => ENABLED IssueRequest(i)

\* what the code does instead: at most one annotation request is ever in flight
RequestsNeverOverlap ==
    pc = "gather" => Cardinality({i \in 1..Len(task) : task[i] = "inflight"}) <= 1

SortKey(p) ==
    IF pc = "done" THEN enriched[p]["relevance"].n ELSE enriched[p]["trend_score"].n

\* C4: the result of the call for input position i lands on the video of position
\* i, whatever the order of completion, and the final order is by key
\* descending, equal keys in input order.
C4_IndexForIndex ==
    /\ pc = "done" =>
          \A i \in 1..N : \A p \in PositionsOf(i) :
              LET r == summarize_video(resp[i])
                  s == IF r.exc THEN Placeholder ELSE r.val
              IN /\ enriched[p]["summary"] = s["summary"]
                 /\ enriched[p]["relevance"] = s["relevance"]
                 /\ enriched[p]["why"] = s["why"]
                 /\ enriched[p]["link"] = videos[i]["link"]
    /\ pc = "t_done" =>
          \A i \in 1..N : \A p \in PositionsOf(i) :
              LET r == fetch_video_stats(resp[i])
              IN /\ enriched[p]["views"] = r.val["views"]
                 /\ enriched[p]["likes"] = r.val["likes"]
                 /\ enriched[p]["comments"] = r.val["comments"]
                 /\ enriched[p]["title"] = videos[i]["title"]
                 /\ enriched[p]["trend_score"].n =
                        calculate_trend_score(r.val["views"].n, videos[i]["published_at"].n,
                                              clock[i]).score
    /\ pc \in {"done", "t_done"} =>
          /\ Len(enriched) = N
          /\ \A i \in 1..N : PositionsOf(i) # {}
          /\ \A p, q \in 1..Len(enriched) : p < q =>
                \/ SortKey(p) > SortKey(q)
                \/ SortKey(p) = SortKey(q) /\ SourceOf(p) < SourceOf(q)

\* detect_trends finished a batch whose second call was answered with other
\* statistics than its first
C4_Witness ==
    /\ pc = "t_done"
    /\ N >= 2
    /\ resp[1].fields # resp[2].fields
    /\ enriched[1]["id"] = videos[2]["id"]

\* C5: the ranking of run_query_flow is a stable sort by relevance descending:
\* relevances never increase along the list, the list is a permutation of the
\* merged items, items of equal relevance stay in input order, relevances
\* [50, 90, 50] give the order [2, 1, 3], and the best pick is the head.
C5_StableRank ==
    pc = "done" =>
        /\ \A p \in 1..(Len(enriched) - 1) :
              enriched[p]["relevance"].n >= enriched[p + 1]["relevance"].n
        /\ Len(enriched) = N
        /\ \A i \in 1..N : Cardinality(PositionsOf(i)) = 1
        /\ \A p, q \in 1..Len(enriched) :
              (p < q /\ enriched[p]["relevance"] = enriched[q]["relevance"])
                  => SourceOf(p) < SourceOf(q)
        /\ (N = 3 /\ (\A i \in 1..N : ~summaries[i].exc)
                  /\ summaries[1].val["relevance"] = JInt(50)
                  /\ summaries[2].val["relevance"] = JInt(90)
                  /\ summaries[3].val["relevance"] = JInt(50))
              => enriched = <<DictMerge(videos[2], summaries[2].val),
                              DictMerge(videos[1], summaries[1].val),
                              DictMerge(videos[3], summaries[3].val)>>
        /\ best = enriched[1]

\* the spec's example: relevances 50, 90, 50
C5_Witness ==
    /\ pc = "done"
    /\ N = 3
    /\ resp[1] = ObjectAnswer(Annotation(JInt(50)))
    /\ resp[2] = ObjectAnswer(Annotation(JInt(90)))
    /\ resp[3] = ObjectAnswer(Annotation(JInt(50)))
    /\ best["id"] = videos[2]["id"]

\* C6: iso8601_to_seconds never raises; it returns 0 for an empty input and for
\* an input that does not start with "PT".
C6_DurationNeverRaises ==
    pc = "parsed" =>
        /\ ~durOut.raised
        /\ durOut.value >= 0
        /\ (durIn = <<>> \/ ~StartsWithPT(durIn)) => durOut.value = 0

\* the relevance the claim expects for an answer
ExpectedRelevance(answer) ==
    IF answer.kind = "object" /\ "relevance" \in DOMAIN answer.fields
          /\ answer.fields["relevance"].t = "int"
    THEN LET r == answer.fields["relevance"].n
         IN IF r < 0 THEN 0 ELSE IF r > 100 THEN 100 ELSE r
    ELSE 0

\* C7: every enriched item has an integer relevance in 0..100: below 0 becomes
\* 0, above 100 becomes 100, a missing or non-numeric relevance and that of a
\* failed call is 0.
C7_RelevanceClamped ==
    pc = "done" =>
        /\ \A p \in 1..Len(enriched) :
              /\ enriched[p]["relevance"].t = "int"
              /\ enriched[p]["relevance"].n \in 0..100
        /\ \A i \in 1..N : \A p \in PositionsOf(i) :
              enriched[p]["relevance"].n = IF CallFailed(i) THEN 0 ELSE ExpectedRelevance(resp[i])

\* answers with relevance -5, 150 and a word
C7_Witness ==
    /\ pc = "done"
    /\ N = 3
    /\ resp[1] = ObjectAnswer(Annotation(JInt(-5)))
    /\ resp[2] = ObjectAnswer(Annotation(JInt(150)))
    /\ resp[3] = ObjectAnswer(Annotation(JStr(<<"h", "i", "g", "h">>)))
    /\ enriched[1]["relevance"] = JInt(100)

\* C8: an answer that is no JSON object degrades: the item's summary is the
\* stripped answer text cut to 220 characters, its relevance 0, its why empty.
C8_RawTextKept ==
    pc = "done" =>
        \A i \in 1..N : resp[i].kind = "text" =>
            \A p \in PositionsOf(i) :
                /\ enriched[p]["summary"] = JStr(Take(Strip(resp[i].text), 220))
                /\ enriched[p]["relevance"] = JInt(0)
                /\ enriched[p]["why"] = JStr(<<>>)

C10_VideoFieldsKept ==
    pc = "done" =>
        \A p \in 1..Len(enriched) :
            /\ DOMAIN enriched[p] = VideoKeys \cup {"summary", "relevance", "why"}
            /\ \E i \in 1..N : \A k \in VideoKeys : enriched[p][k] = videos[i][k]

===========================================================================
